---- MODULE Spec2Model ----
(***************************************************************************)
(* A model of api/index.py: the /analyze pipeline (fetch_stock_data,       *)
(* calculate_indicators, generate_chart) and the chart files it writes     *)
(* under static/charts.  A data frame is modelled by its set of column     *)
(* labels, its index label and its number of rows; the numeric content of  *)
(* the columns is computed by external libraries and is not modelled.      *)
(***************************************************************************)
EXTENDS Naturals, Integers, Sequences, FiniteSets, TLC

\* ------------------------------------------------------------------ bounds

\* Largest number of identifiers in the multi-valued "indicators" field.
MaxSel == 2

\* ------------------------------------------------------------ Python values

\* Python's None (a missing form field, an absent error, no data frame).
None == "<None>"

\* Truthiness of an optional string: None and "" are falsy.
Truthy(x) == x # None /\ x # ""

\* request.form.get(key, default): the default only when the field is absent.
FormGet(value, default) == IF value = None THEN default ELSE value

\* ------------------------------------------------------------- data frames

OHLCV == {"Open", "High", "Low", "Close", "Volume"}

\* stock_data = None
NoneData == [kind |-> "none", index |-> None, cols |-> {}, rows |-> 0]

Frame(index, cols, rows) ==
    [kind |-> "frame", index |-> index, cols |-> cols, rows |-> rows]

\* DataFrame.empty: no rows or no columns.
IsEmpty(df) == df.rows = 0 \/ df.cols = {}

\* DataFrame.reset_index(inplace=True): the index becomes a column.
reset_index(df) == [df EXCEPT !.cols = df.cols \cup {df.index}, !.index = None]

\* data[col] succeeds when data is a frame that has the column.
HasCol(data, col) == data.kind = "frame" /\ col \in data.cols

\* str() of the exception data[col] raises: TypeError on None, KeyError else.
SubscriptError(data, col) ==
    IF data.kind = "none"
    THEN "'NoneType' object is not subscriptable"
    ELSE "'" \o col \o "'"

\* --------------------------------------------------- what yf.download does

\* The indicator identifiers the form can carry: the six of the vocabulary
\* and one outside it.
Vocabulary == {"SMA_10", "EMA_20", "SMA_50", "SMA_200", "RSI", "MACD"}
Identifiers == Vocabulary \cup {"FOO"}

\* The outcomes of yf.download: an exception (with str(e)), or a frame.
Raise(msg) == [kind |-> "raise", msg |-> msg, frame |-> NoneData]
Returns(df) == [kind |-> "return", msg |-> None, frame |-> df]

UpstreamOutcomes ==
    { Raise(""), Raise("connection failed"),
      Returns(Frame("Date", OHLCV, 0)),
      Returns(Frame("Date", OHLCV, 1)),
      Returns(Frame("Datetime", OHLCV, 1)),
      Returns(Frame("Date", OHLCV \ {"Close"}, 1)) }

\* The arguments of the yf.download call fetch_stock_data makes.
download_call(ticker, start_date, end_date, period, interval) ==
    IF Truthy(start_date) /\ Truthy(end_date)
    THEN [ticker |-> ticker, start |-> start_date, end |-> end_date,
          period |-> None, interval |-> interval]
    ELSE [ticker |-> ticker, start |-> None, end |-> None,
          period |-> period, interval |-> interval]

\* ------------------------------------------------------- fetch_stock_data

\* A fetch that does not test stock_data.empty.
fetch_stock_data_NoEmptyTest(ticker, start_date, end_date, period, interval, outcome) ==
    LET call == download_call(ticker, start_date, end_date, period, interval) IN
    IF outcome.kind = "raise"
    THEN [call |-> call, data |-> NoneData, error |-> outcome.msg]
    ELSE [call |-> call, data |-> reset_index(outcome.frame), error |-> None]

\* Returns (stock_data, error); `outcome` is what the yf.download call did.
fetch_stock_data(ticker, start_date, end_date, period, interval, outcome) ==
    LET call == download_call(ticker, start_date, end_date, period, interval) IN
    IF outcome.kind = "raise"
    THEN [call |-> call, data |-> NoneData, error |-> outcome.msg]
    ELSE IF IsEmpty(outcome.frame)
    THEN [call |-> call, data |-> NoneData,
          error |-> "No data available for the given ticker."]
    ELSE [call |-> call, data |-> reset_index(outcome.frame), error |-> None]

\* --------------------------------------------------- calculate_indicators

\* The `if ... in indicators` blocks of calculate_indicators, in order: the
\* identifier tested, the column read and the columns assigned.
CalcTable ==
    << [id |-> "SMA_10", reads |-> "Close", adds |-> {"SMA_10"}],
       [id |-> "EMA_20", reads |-> "Close", adds |-> {"EMA_20"}],
       [id |-> "RSI",    reads |-> "Close", adds |-> {"RSI"}],
       [id |-> "MACD",   reads |-> "Close", adds |-> {"MACD", "MACD_signal"}] >>

\* The blocks from the i-th on, applied to `data`: the first failing read
\* raises, wrapped as ValueError("Error calculating indicators: ...").
RECURSIVE CalcFrom(_, _, _)
CalcFrom(i, data, indicators) ==
    IF i > Len(CalcTable)
    THEN [raised |-> FALSE, msg |-> None, data |-> data]
    ELSE LET b == CalcTable[i] IN
         IF b.id \notin indicators
         THEN CalcFrom(i + 1, data, indicators)
         ELSE IF ~HasCol(data, b.reads)
         THEN [raised |-> TRUE,
               msg |-> "Error calculating indicators: "
                       \o SubscriptError(data, b.reads),
               data |-> data]
         ELSE CalcFrom(i + 1,
                       [data EXCEPT !.cols = data.cols \cup b.adds],
                       indicators)

\* A calculator that rejects an identifier it has no block for.
calculate_indicators_Strict(data, indicators) ==
    IF indicators \subseteq {CalcTable[i].id : i \in 1..Len(CalcTable)}
    THEN CalcFrom(1, data, indicators)
    ELSE [raised |-> TRUE,
          msg |-> "Error calculating indicators: unknown indicator",
          data |-> data]

calculate_indicators(data, indicators) == CalcFrom(1, data, indicators)

\* --------------------------------------------------------- generate_chart

\* One fig.add_trace call: the graph object, its name, the subplot row, the
\* columns of `data` its arguments read (in evaluation order) and its colour.
Trace(type, name, row, reads, color) ==
    [type |-> type, name |-> name, row |-> row, reads |-> reads, color |-> color]

\* The price trace chosen by chart_type; none for any other value.
PriceTraces(chart_type, line_color) ==
    IF chart_type = "candlestick"
    THEN << Trace("Candlestick", "Candlestick", 1,
                  <<"Date", "Open", "High", "Low", "Close">>, "green/red") >>
    ELSE IF chart_type = "line"
    THEN << Trace("Scatter", "Stock Price", 1, <<"Date", "Close">>, line_color) >>
    ELSE IF chart_type = "bar"
    THEN << Trace("Bar", "Stock Price", 1, <<"Date", "Close">>, None) >>
    ELSE << >>

\* The `if ... in indicators` blocks of generate_chart, in order, each with
\* the traces it adds.
OverlayTable ==
    << [id |-> "SMA_10", traces |->
          << Trace("Scatter", "10-Day SMA", 1, <<"Date", "SMA_10">>, "orange") >>],
       [id |-> "EMA_20", traces |->
          << Trace("Scatter", "20-Day EMA", 1, <<"Date", "EMA_20">>, "blue") >>],
       [id |-> "SMA_50", traces |->
          << Trace("Scatter", "50-Day SMA", 1, <<"Date", "SMA_50">>, "green") >>],
       [id |-> "SMA_200", traces |->
          << Trace("Scatter", "200-Day SMA", 1, <<"Date", "SMA_200">>, "red") >>],
       [id |-> "RSI", traces |->
          << Trace("Scatter", "RSI", 3, <<"Date", "RSI">>, "purple") >>],
       [id |-> "MACD", traces |->
          << Trace("Scatter", "MACD Line", 2, <<"Date", "MACD">>, "red"),
             Trace("Scatter", "MACD Signal", 2, <<"Date", "MACD_signal">>, "green"),
             Trace("Bar", "MACD Histogram", 2, <<"Date", "MACD_histogram">>,
                   "rgba(50, 50, 50, 0.5)") >>] >>

RECURSIVE OverlayFrom(_, _)
OverlayFrom(i, indicators) ==
    IF i > Len(OverlayTable) THEN << >>
    ELSE (IF OverlayTable[i].id \in indicators
          THEN OverlayTable[i].traces ELSE << >>)
         \o OverlayFrom(i + 1, indicators)

VolumeTrace ==
    Trace("Bar", "Volume", 1, <<"Date", "Volume">>, "rgba(128,128,128,0.5)")

\* A composer that adds no volume bars.
ChartTraces_NoVolume(chart_type, indicators, line_color) ==
    PriceTraces(chart_type, line_color) \o OverlayFrom(1, indicators)

\* The add_trace calls of generate_chart, in the order the code makes them.
ChartTraces(chart_type, indicators, line_color) ==
    PriceTraces(chart_type, line_color)
    \o OverlayFrom(1, indicators)
    \o << VolumeTrace >>

\* The columns the add_trace calls read, in order.
RECURSIVE Reads(_)
Reads(traces) ==
    IF traces = << >> THEN << >> ELSE Head(traces).reads \o Reads(Tail(traces))

\* The first column of `cols` that data[col] fails on, or None.
RECURSIVE FirstMissing(_, _)
FirstMissing(data, cols) ==
    IF cols = << >> THEN None
    ELSE IF ~HasCol(data, Head(cols)) THEN Head(cols)
    ELSE FirstMissing(data, Tail(cols))

\* chart_path = f"static/charts/{ticker}_chart.html"
ChartPath(ticker) == "static/charts/" \o ticker \o "_chart.html"

\* The figure written by fig.write_html: the ticker of its titles, its traces
\* and the layout template.
Artifact(ticker, traces, chart_theme) ==
    [ticker |-> ticker, traces |-> traces, template |-> chart_theme]

NoArtifact == Artifact(None, << >>, None)

\* The body of generate_chart for a given output path.  `write` says whether
\* fig.write_html(path) was reached.
RenderTo(path, data, ticker, chart_type, indicators, line_color, chart_theme) ==
    LET traces == ChartTraces(chart_type, indicators, line_color)
        missing == FirstMissing(data, Reads(traces))
    IN  IF missing # None
        THEN [raised |-> TRUE,
              msg |-> "Error generating chart: " \o SubscriptError(data, missing),
              write |-> FALSE, path |-> None, artifact |-> NoArtifact]
        ELSE [raised |-> FALSE, msg |-> None, write |-> TRUE, path |-> path,
              artifact |-> Artifact(ticker, traces, chart_theme)]

\* A composer whose output path also depends on the chart type.
generate_chart_PathByType(data, ticker, chart_type, indicators, line_color, chart_theme) ==
    RenderTo("static/charts/" \o ticker \o "_" \o chart_type \o "_chart.html",
             data, ticker, chart_type, indicators, line_color, chart_theme)

\* A composer that writes the file before it adds the traces.
generate_chart_WriteFirst(data, ticker, chart_type, indicators, line_color, chart_theme) ==
    LET res == RenderTo(ChartPath(ticker), data, ticker, chart_type, indicators,
                        line_color, chart_theme)
    IN  IF res.raised
        THEN [res EXCEPT !.write = TRUE, !.path = ChartPath(ticker),
                         !.artifact = Artifact(ticker, << >>, None)]
        ELSE res

generate_chart(data, ticker, chart_type, indicators, line_color, chart_theme) ==
    RenderTo(ChartPath(ticker), data, ticker, chart_type, indicators,
             line_color, chart_theme)

\* fig.write_html(chart_path) on the charts directory: create or overwrite.
write_html_KeepExisting(files, path, artifact) ==
    IF path \in DOMAIN files THEN files
    ELSE [p \in DOMAIN files \cup {path} |-> IF p = path THEN artifact ELSE files[p]]

write_html(files, path, artifact) ==
    [p \in DOMAIN files \cup {path} |-> IF p = path THEN artifact ELSE files[p]]

\* ------------------------------------------------------------------- state

\* The requests in flight; each is served by its own thread of the server.
Requests == {"r1", "r2"}

VARIABLES
    pc,        \* pc[r]: where request r's handler is
    form,      \* form[r]: request.form of r (None for an absent field)
    data,      \* data[r]: analyze's local stock_data
    chart_path,\* chart_path[r]: analyze's local chart_path
    resp,      \* resp[r]: the response sent for r
    files,     \* the files under static/charts: path -> figure written
    upstream,  \* history: upstream[r] is the yf.download call of r and its outcome
    log,       \* history: log[r] lists the stages invoked for r, each with its
               \* result and the number of file writes that preceded it
    writes     \* history: the write_html calls, in order

vars == <<pc, form, data, chart_path, resp, files, upstream, log, writes>>

\* request.form: the nine fields analyze reads.
Form(ticker, period, interval, start_date, end_date, chart_type, line_color, chart_theme, indicators) ==
    [ticker |-> ticker, period |-> period, interval |-> interval,
     start_date |-> start_date, end_date |-> end_date, chart_type |-> chart_type,
     line_color |-> line_color, chart_theme |-> chart_theme,
     indicators |-> indicators]

NoForm == Form(None, None, None, None, None, None, None, None, {})

\* The forms a single request is drawn from.
Selections == {s \in SUBSET Identifiers : Cardinality(s) <= MaxSel}

Forms ==
    { Form(t, p, i, s, e, c, l, th, sel) :
        t \in {None, "", "AAPL"}, p \in {None, "1y"}, i \in {None, "1h"},
        s \in {None, "2024-01-01"}, e \in {None, "2024-02-01"},
        c \in {None, "line", "bar", "area"}, l \in {None, "#0000ff"},
        th \in {None, "plotly_dark"}, sel \in Selections }

\* The forms two concurrent requests are drawn from.
ConcForms ==
    { Form(t, None, None, None, None, c, l, th, sel) :
        t \in {"", "AAPL", "MSFT"}, c \in {None, "line"},
        l \in {None, "#0000ff"}, th \in {None, "plotly_dark"},
        sel \in {{}, {"RSI"}, {"MACD"}} }

ConcOutcomes ==
    { Raise("connection failed"),
      Returns(Frame("Date", OHLCV, 1)),
      Returns(Frame("Date", OHLCV \ {"Close"}, 1)) }

\* The locals analyze reads from request.form.
Args(f) ==
    [ticker |-> f.ticker,
     period |-> FormGet(f.period, "1mo"),
     interval |-> FormGet(f.interval, "1d"),
     start_date |-> f.start_date,
     end_date |-> f.end_date,
     chart_type |-> FormGet(f.chart_type, "candlestick"),
     line_color |-> FormGet(f.line_color, "#ff6347"),
     chart_theme |-> FormGet(f.chart_theme, "plotly_white"),
     indicators |-> f.indicators]

\* Responses: jsonify(body), status.
NoResp == [status |-> 0, body |-> [none |-> TRUE]]
ErrorResp(status, msg) == [status |-> status, body |-> [error |-> msg]]
SuccessResp(path) == [status |-> 200, body |-> [chart_url |-> path, success |-> TRUE]]
PageResp(template) == [status |-> 200, body |-> [template |-> template]]

NoCall == [call |-> download_call(None, None, None, None, None),
           outcome |-> Raise(None)]

Init ==
    /\ pc = [r \in Requests |-> "idle"]
    /\ form = [r \in Requests |-> NoForm]
    /\ data = [r \in Requests |-> NoneData]
    /\ chart_path = [r \in Requests |-> None]
    /\ resp = [r \in Requests |-> NoResp]
    /\ files = << >>
    /\ upstream = [r \in Requests |-> NoCall]
    /\ log = [r \in Requests |-> << >>]
    /\ writes = << >>

\* ----------------------------------------------------------------- actions

\* A test that rejects only an absent ticker field.
TickerMissing_OnlyNone(ticker) == ticker = None

\* `if not ticker`
TickerMissing(ticker) == ~Truthy(ticker)

\* `if error` after fetch_stock_data
FetchFailed(error) == Truthy(error)

\* GET /: home() renders the page.
home(r) ==
    /\ pc[r] = "idle"
    /\ resp' = [resp EXCEPT ![r] = PageResp("index.html")]
    /\ pc' = [pc EXCEPT ![r] = "done"]
    /\ UNCHANGED <<form, data, chart_path, files, upstream, log, writes>>

\* POST /analyze arrives: the form is read and the ticker validated.
analyze_receive(r, forms) ==
    /\ pc[r] = "idle"
    /\ \E f \in forms :
         /\ form' = [form EXCEPT ![r] = f]
         /\ IF TickerMissing(Args(f).ticker)
            THEN /\ resp' = [resp EXCEPT ![r] =
                               ErrorResp(400, "Ticker symbol is required.")]
                 /\ pc' = [pc EXCEPT ![r] = "done"]
            ELSE /\ pc' = [pc EXCEPT ![r] = "fetch"]
                 /\ UNCHANGED resp
    /\ UNCHANGED <<data, chart_path, files, upstream, log, writes>>

\* stock_data, error = fetch_stock_data(...); `if error` returns 500.
analyze_fetch(r, outcomes) ==
    /\ pc[r] = "fetch"
    /\ \E o \in outcomes :
         LET a == Args(form[r])
             res == fetch_stock_data(a.ticker, a.start_date, a.end_date,
                                     a.period, a.interval, o)
         IN  /\ upstream' = [upstream EXCEPT ![r] = [call |-> res.call, outcome |-> o]]
             /\ data' = [data EXCEPT ![r] = res.data]
             /\ log' = [log EXCEPT ![r] =
                          Append(@, [stage |-> "fetch", ok |-> res.error = None,
                                    after |-> Len(writes)])]
             /\ IF FetchFailed(res.error)
                THEN /\ resp' = [resp EXCEPT ![r] = ErrorResp(500, res.error)]
                     /\ pc' = [pc EXCEPT ![r] = "done"]
                ELSE /\ pc' = [pc EXCEPT ![r] = "calc"]
                     /\ UNCHANGED resp
    /\ UNCHANGED <<form, chart_path, files, writes>>

\* stock_data = calculate_indicators(stock_data, indicators); ValueError -> 500.
analyze_calculate(r) ==
    /\ pc[r] = "calc"
    /\ LET res == calculate_indicators(data[r], Args(form[r]).indicators)
       IN  /\ log' = [log EXCEPT ![r] =
                        Append(@, [stage |-> "calculate", ok |-> ~res.raised,
                                    after |-> Len(writes)])]
           /\ IF res.raised
              THEN /\ resp' = [resp EXCEPT ![r] = ErrorResp(500, res.msg)]
                   /\ pc' = [pc EXCEPT ![r] = "done"]
                   /\ UNCHANGED data
              ELSE /\ data' = [data EXCEPT ![r] = res.data]
                   /\ pc' = [pc EXCEPT ![r] = "render"]
                   /\ UNCHANGED resp
    /\ UNCHANGED <<form, chart_path, files, upstream, writes>>

\* chart_path = generate_chart(...), the file write included; ValueError -> 500.
analyze_render(r) ==
    /\ pc[r] = "render"
    /\ LET a == Args(form[r])
           res == generate_chart(data[r], a.ticker, a.chart_type, a.indicators,
                                 a.line_color, a.chart_theme)
       IN  /\ log' = [log EXCEPT ![r] =
                        Append(@, [stage |-> "render", ok |-> ~res.raised,
                                    after |-> Len(writes)])]
           /\ IF res.write
              THEN /\ files' = write_html(files, res.path, res.artifact)
                   /\ writes' = Append(writes, [req |-> r, path |-> res.path,
                                                artifact |-> res.artifact])
              ELSE UNCHANGED <<files, writes>>
           /\ IF res.raised
              THEN /\ resp' = [resp EXCEPT ![r] = ErrorResp(500, res.msg)]
                   /\ pc' = [pc EXCEPT ![r] = "done"]
                   /\ UNCHANGED chart_path
              ELSE /\ chart_path' = [chart_path EXCEPT ![r] = res.path]
                   /\ pc' = [pc EXCEPT ![r] = "respond"]
                   /\ UNCHANGED resp
    /\ UNCHANGED <<form, data, upstream>>

\* return jsonify({"chart_url": chart_path, "success": True})
analyze_respond(r) ==
    /\ pc[r] = "respond"
    /\ resp' = [resp EXCEPT ![r] = SuccessResp(chart_path[r])]
    /\ pc' = [pc EXCEPT ![r] = "done"]
    /\ UNCHANGED <<form, data, chart_path, files, upstream, log, writes>>

\* One request, every form and every upstream outcome.
Next ==
    \/ home("r1")
    \/ analyze_receive("r1", Forms)
    \/ analyze_fetch("r1", UpstreamOutcomes)
    \/ analyze_calculate("r1")
    \/ analyze_render("r1")
    \/ analyze_respond("r1")

Spec == Init /\ [][Next]_vars

\* Two requests served concurrently, interleaved stage by stage.
ConcNext ==
    \E r \in Requests :
        \/ home(r)
        \/ analyze_receive(r, ConcForms)
        \/ analyze_fetch(r, ConcOutcomes)
        \/ analyze_calculate(r)
        \/ analyze_render(r)
        \/ analyze_respond(r)

ConcSpec == Init /\ [][ConcNext]_vars

\* ------------------------------------------------------ reading the state

\* Request r is a POST /analyze that has been received.
Analyzed(r) == pc[r] # "idle" /\ resp[r] # PageResp("index.html")

IsSuccess(rsp) == rsp.status = 200 /\ "chart_url" \in DOMAIN rsp.body

IsError(rsp) == rsp.status \in {400, 500}

\* The stages invoked for r so far, and the ones that returned without error.
Invoked(r, stage) == \E i \in DOMAIN log[r] : log[r][i].stage = stage
Passed(r, stage) ==
    \E i \in DOMAIN log[r] : log[r][i].stage = stage /\ log[r][i].ok
Count(r, stage) == Cardinality({i \in DOMAIN log[r] : log[r][i].stage = stage})
Position(r, stage) == CHOOSE i \in DOMAIN log[r] : log[r][i].stage = stage

\* The download of r returned the series a daily ticker has: a Date index,
\* the five OHLCV columns and at least one row.
WellFormed(r) ==
    /\ upstream[r].outcome.kind = "return"
    /\ upstream[r].outcome.frame.index = "Date"
    /\ upstream[r].outcome.frame.cols = OHLCV
    /\ upstream[r].outcome.frame.rows > 0

\* The traces of a figure that lie in subplot row n.
Panel(artifact, n) ==
    {artifact.traces[i] : i \in {j \in DOMAIN artifact.traces :
                                   artifact.traces[j].row = n}}

PanelNames(artifact, n) == {t.name : t \in Panel(artifact, n)}

\* The figure a render with the inputs of request r produces.
FigureOf(r) ==
    LET a == Args(form[r])
    IN  Artifact(a.ticker,
                 ChartTraces(a.chart_type, a.indicators, a.line_color),
                 a.chart_theme)

\* The write_html calls made for request r, and the last call on a path.
WritesOf(r) == {i \in DOMAIN writes : writes[i].req = r}
WritesTo(path) == {i \in DOMAIN writes : writes[i].path = path}
Latest(idx) == CHOOSE i \in idx : \A j \in idx : j <= i

\* ------------------------------------------------------------------ claims

\* C1: a request whose ticker is missing or empty is answered 400 with
\* {"error": "Ticker symbol is required."} and none of fetch, calculate,
\* render is invoked for it.
C1_MissingTickerRejected ==
    \A r \in Requests :
        (Analyzed(r) /\ form[r].ticker \in {None, ""}) =>
            /\ pc[r] = "done"
            /\ resp[r] = ErrorResp(400, "Ticker symbol is required.")
            /\ log[r] = << >>
            /\ upstream[r] = NoCall
            /\ WritesOf(r) = {}

C1_Witness ==
    \E r \in Requests :
        /\ Analyzed(r) /\ form[r].ticker = ""
        /\ form[r].indicators # {}
        /\ resp[r].status = 400

\* C2: when the download for a non-empty ticker returns an empty series the
\* answer is 500 with {"error": "No data available for the given ticker."},
\* whatever the other form fields are.
C2_EmptySeries500 ==
    \A r \in Requests :
        (/\ Invoked(r, "fetch")
         /\ upstream[r].outcome.kind = "return"
         /\ upstream[r].outcome.frame.rows = 0) =>
            /\ Truthy(form[r].ticker)
            /\ pc[r] = "done"
            /\ resp[r] = ErrorResp(500, "No data available for the given ticker.")

C2_Witness ==
    \E r \in Requests :
        /\ Invoked(r, "fetch")
        /\ upstream[r].outcome.kind = "return"
        /\ upstream[r].outcome.frame.rows = 0
        /\ form[r].indicators = {"MACD", "FOO"}
        /\ form[r].start_date # None /\ form[r].end_date # None
        /\ form[r].chart_type = "bar"
        /\ resp[r].status = 500

\* C3: within one request each stage is invoked at most once; calculate is
\* invoked only after fetch returned a series without failing (whatever made
\* the fetch fail, an exception of the upstream included); render only after
\* calculate returned without error; a success response only after all three
\* stages completed without error.
C3_StagesStrictlySequenced ==
    \A r \in Requests :
        /\ \A st \in {"fetch", "calculate", "render"} : Count(r, st) <= 1
        /\ Invoked(r, "calculate") =>
              /\ Passed(r, "fetch")
              /\ upstream[r].outcome.kind = "return"
              /\ Position(r, "fetch") < Position(r, "calculate")
        /\ Invoked(r, "render") =>
              /\ Passed(r, "calculate")
              /\ Position(r, "calculate") < Position(r, "render")
        /\ IsSuccess(resp[r]) =>
              /\ Passed(r, "fetch")
              /\ Passed(r, "calculate")
              /\ Passed(r, "render")

\* C4: with MACD selected and a fetched series, the request succeeds and
\* panel 2 of the figure holds the MACD line, the MACD signal and the MACD
\* histogram; without MACD panel 2 holds no trace.  Stated for well-formed
\* series and for selections without SMA_50 and SMA_200.
C4_MacdPanel ==
    \A r \in Requests :
        (/\ Analyzed(r) /\ pc[r] = "done" /\ WellFormed(r)
         /\ form[r].indicators \cap {"SMA_50", "SMA_200"} = {}) =>
            /\ "MACD" \in form[r].indicators =>
                  /\ IsSuccess(resp[r])
                  /\ resp[r].body.chart_url \in DOMAIN files
                  /\ PanelNames(files[resp[r].body.chart_url], 2) =
                        {"MACD Line", "MACD Signal", "MACD Histogram"}
            /\ ("MACD" \notin form[r].indicators /\ IsSuccess(resp[r])) =>
                  Panel(files[resp[r].body.chart_url], 2) = {}

\* C5: for every selection and every fetched series the augmented series
\* holds a derived column for each requested indicator of the vocabulary,
\* and the request ends with a success response whose panel 1 overlays one
\* trace for each of SMA_10, EMA_20, SMA_50, SMA_200 selected.  Stated for
\* well-formed series and for selections without MACD.
C5_DerivedColumnsAndOverlays ==
    \A r \in Requests :
        (/\ Analyzed(r) /\ WellFormed(r)
         /\ "MACD" \notin form[r].indicators) =>
            /\ Invoked(r, "calculate") =>
                  /\ Passed(r, "calculate")
                  /\ form[r].indicators \cap Vocabulary \subseteq data[r].cols
            /\ pc[r] = "done" =>
                  /\ IsSuccess(resp[r])
                  /\ resp[r].body.chart_url \in DOMAIN files
                  /\ LET names == PanelNames(files[resp[r].body.chart_url], 1)
                         sel == form[r].indicators
                     IN  /\ ("SMA_10" \in sel) <=> ("10-Day SMA" \in names)
                         /\ ("EMA_20" \in sel) <=> ("20-Day EMA" \in names)
                         /\ ("SMA_50" \in sel) <=> ("50-Day SMA" \in names)
                         /\ ("SMA_200" \in sel) <=> ("200-Day SMA" \in names)

\* C6: the path a render returns depends on the ticker alone: of any two
\* successive renders of one ticker both return the same path, one file
\* exists for that ticker afterwards, and it holds the figure of the inputs
\* of the later call.
C6_PathByTickerAlone ==
    \A i \in DOMAIN writes : \A j \in DOMAIN writes :
        (i < j /\ form[writes[i].req].ticker = form[writes[j].req].ticker) =>
            LET t == form[writes[j].req].ticker
                last == Latest({k \in DOMAIN writes :
                                  form[writes[k].req].ticker = t})
            IN  /\ writes[i].path = writes[j].path
                /\ Cardinality({p \in DOMAIN files : files[p].ticker = t}) = 1
                /\ files[writes[j].path] = FigureOf(writes[last].req)
                /\ \A r \in {writes[i].req, writes[j].req} :
                      pc[r] \in {"respond", "done"} =>
                          chart_path[r] = writes[j].path

C6_Witness ==
    \E i \in DOMAIN writes : \E j \in DOMAIN writes :
        /\ i < j
        /\ form[writes[i].req].ticker = form[writes[j].req].ticker
        /\ form[writes[i].req].chart_type # form[writes[j].req].chart_type
        /\ form[writes[i].req].indicators # form[writes[j].req].indicators
        /\ IsSuccess(resp[writes[i].req]) /\ IsSuccess(resp[writes[j].req])
        /\ resp[writes[i].req] = resp[writes[j].req]

\* C7: an identifier outside the vocabulary is ignored: the calculator does
\* not raise because of it and adds no column for it, a selection of such
\* identifiers only leaves the columns of the series unchanged, and the
\* request on a well-formed series does not fail.
C7_UnknownIdentifiersIgnored ==
    \A r \in Requests :
        Invoked(r, "calculate") =>
            LET sel == form[r].indicators
                before == fetch_stock_data(None, None, None, None, None,
                                           upstream[r].outcome).data
            IN  /\ ~Passed(r, "calculate") => sel \cap Vocabulary # {}
                /\ Passed(r, "calculate") =>
                      (sel \ Vocabulary) \cap (data[r].cols \ before.cols) = {}
                /\ sel \cap Vocabulary = {} =>
                      /\ Passed(r, "calculate")
                      /\ data[r] = before
                      /\ (pc[r] = "done" /\ WellFormed(r)) => IsSuccess(resp[r])

C7_Witness ==
    \E r \in Requests :
        /\ form[r].indicators = {"FOO"}
        /\ Passed(r, "calculate")
        /\ pc[r] = "done"
        /\ IsSuccess(resp[r])

\* C8: a render with chart_type "line" and an empty selection writes a
\* figure whose traces are exactly the price trace and the volume trace,
\* both in panel 1, with nothing in panels 2 and 3.
C8_LineChartNoIndicators ==
    \A r \in Requests :
        (/\ Passed(r, "render")
         /\ form[r].chart_type = "line"
         /\ form[r].indicators = {}) =>
            /\ chart_path[r] \in DOMAIN files
            /\ LET fig == files[chart_path[r]]
               IN  /\ Len(fig.traces) = 2
                   /\ fig.traces[1].name = "Stock Price"
                   /\ fig.traces[1].type = "Scatter"
                   /\ fig.traces[1].color = Args(form[r]).line_color
                   /\ fig.traces[2].name = "Volume"
                   /\ fig.traces[2].type = "Bar"
                   /\ \A i \in DOMAIN fig.traces : fig.traces[i].row = 1
                   /\ Panel(fig, 2) = {} /\ Panel(fig, 3) = {}

C8_Witness ==
    \E r \in Requests :
        /\ Passed(r, "render")
        /\ form[r].chart_type = "line"
        /\ form[r].indicators = {}
        /\ form[r].line_color = "#0000ff"
        /\ IsSuccess(resp[r])

\* C9: concurrent requests for one ticker write one path without a lock and
\* the last writer wins: every file holds the figure of the latest write to
\* its path, so once two such requests have finished the file holds the
\* figure of whichever wrote last.
C9_LastWriterWins ==
    /\ \A p \in DOMAIN files :
          /\ WritesTo(p) # {}
          /\ files[p] = writes[Latest(WritesTo(p))].artifact
    /\ \A r \in Requests : \A q \in Requests :
          (/\ r # q /\ pc[r] = "done" /\ pc[q] = "done"
           /\ IsSuccess(resp[r]) /\ IsSuccess(resp[q])
           /\ form[r].ticker = form[q].ticker) =>
              /\ resp[r].body.chart_url = resp[q].body.chart_url
              /\ files[resp[r].body.chart_url] =
                    FigureOf(writes[Len(writes)].req)

\* A request holds a success response for a path whose file is the figure
\* of the other request, written while the first was between its write and
\* its response.
C9_Witness ==
    \E r \in Requests : \E q \in Requests :
        /\ r # q
        /\ IsSuccess(resp[r])
        /\ files[resp[r].body.chart_url] # FigureOf(r)
        /\ files[resp[r].body.chart_url] = FigureOf(q)
        /\ pc[q] = "respond"
        /\ \E i \in WritesOf(r) : \E j \in WritesOf(q) : i < j

\* C10: a request that ends in an error response leaves the chart files as
\* they were: it has written nothing, the step that sends the error changes
\* no file, and only the render step of a request that goes on to a success
\* response changes the files.
C10_ErrorLeavesFilesUnchanged ==
    [][ /\ \A r \in Requests :
              IsError(resp'[r]) =>
                  /\ WritesOf(r)' = {}
                  /\ resp[r] = NoResp => (files' = files /\ writes' = writes)
        /\ files' # files =>
              \E r \in Requests : pc[r] = "render" /\ pc'[r] = "respond"
      ]_vars

\* A request for a ticker ended in an error raised by its render, invoked
\* after an earlier request had written the file of that ticker, and the
\* file is still the earlier request's figure.
C10_Witness ==
    \E r \in Requests : \E q \in Requests :
        /\ r # q
        /\ IsSuccess(resp[q])
        /\ form[r].ticker = form[q].ticker
        /\ resp[r].status = 500
        /\ Invoked(r, "render")
        /\ log[r][Position(r, "render")].after = 1
        /\ files[resp[q].body.chart_url] = FigureOf(q)

====
